---- MODULE Spec2Model ----
(***************************************************************************)
(* gin-favicon: Add decodes one or two source images, derives the icon     *)
(* set, the web manifest and the browserconfig document, and registers one *)
(* static GET handler per asset on a gin router group.                     *)
(*                                                                         *)
(* Strings that the code concatenates or inspects (paths) are sequences of *)
(* tokens in which every "/" is a token of its own: "/icons/" is           *)
(* <<"/", "icons", "/">>.  Strings that are only copied are TLA+ strings.  *)
(* A byte slice holding an image file is a record [fmt, id, w, h]: its     *)
(* container format, the picture it shows and its pixel dimensions.        *)
(***************************************************************************)
EXTENDS Integers, Sequences, FiniteSets, TLC

VARIABLES basePath, routes, pc, opts, err, clients

vars == <<basePath, routes, pc, opts, err, clients>>

\* Number of distinct decodable PNG source files the caller may pass.
NumImages == 2
\* Number of HTTP clients issuing requests concurrently.
NumClients == 2

\* http.StatusOK
StatusOK == 200

\* A nil error.
NoErr == "nil"

(***************************************************************************)
(* Source byte slices.                                                     *)
(***************************************************************************)
\* A nil []byte (the zero value of Options.Favicon / Options.AppleTouchIcon).
NilBytes == [fmt |-> "nil", id |-> 0, w |-> 0, h |-> 0]
\* Bytes that are no image file of any registered format.
JunkBytes == [fmt |-> "junk", id |-> 0, w |-> 0, h |-> 0]
\* A BMP file whose header declares no pixels: it decodes, to an empty image.
EmptyBmp == [fmt |-> "bmp", id |-> 0, w |-> 0, h |-> 0]
\* The i-th PNG source file; the first ones are not square.
PngFile(i) == [fmt |-> "png", id |-> i, w |-> 256 * i, h |-> 512]

SourceBytes == {NilBytes, JunkBytes, EmptyBmp} \cup {PngFile(i) : i \in 1..NumImages}

(***************************************************************************)
(* The imaging library, as Add uses it.                                    *)
(***************************************************************************)
NoImage == [id |-> 0, w |-> 0, h |-> 0]

\* imaging.Decode(bytes.NewReader(b)): an image, or an error for bytes that
\* are no image (a nil or empty slice included).
Decode(b) ==
    IF b.fmt \in {"png", "bmp"}
    THEN [img |-> [id |-> b.id, w |-> b.w, h |-> b.h], err |-> NoErr]
    ELSE [img |-> NoImage, err |-> "image: unknown format"]

\* imaging.Resize(img, w, h, imaging.Lanczos): a new w x h image of the same
\* picture, the aspect ratio not kept; a zero w or h (not both) is computed
\* from the other so as to keep it; an empty image for an empty source.
Resize(img, w, h) ==
    IF w < 0 \/ h < 0 \/ (w = 0 /\ h = 0) \/ img.w <= 0 \/ img.h <= 0
    THEN NoImage
    ELSE LET round(n, d) == IF (2 * n + d) \div (2 * d) < 1 THEN 1
                            ELSE (2 * n + d) \div (2 * d)
             dstW == IF w = 0 THEN round(h * img.w, img.h) ELSE w
             dstH == IF h = 0 THEN round(w * img.h, img.w) ELSE h
         IN  [id |-> img.id, w |-> dstW, h |-> dstH]

\* imaging.Encode(&buf, img, format): the image file, or the encoder's error
\* for an image without pixels.
Encode(img, format) ==
    IF img.w <= 0 \/ img.h <= 0
    THEN [data |-> NilBytes, err |-> "png: invalid format: invalid image size"]
    ELSE [data |-> [fmt |-> format, id |-> img.id, w |-> img.w, h |-> img.h],
          err |-> NoErr]

(***************************************************************************)
(* The gin router group, as Add uses it.                                   *)
(***************************************************************************)
\* strings.HasSuffix(path, "/")
HasSuffixSlash(path) == Len(path) > 0 /\ path[Len(path)] = "/"

RECURSIVE DedupSlashes(_)
DedupSlashes(s) ==
    IF Len(s) <= 1 THEN s
    ELSE IF s[1] = "/" /\ s[2] = "/" THEN DedupSlashes(Tail(s))
    ELSE <<s[1]>> \o DedupSlashes(Tail(s))

\* path.Clean on a path without "." and ".." elements: runs of separators
\* collapse and a trailing separator is dropped, except for the root.
Clean(s) ==
    LET d == DedupSlashes(s)
    IN  IF d = <<>> THEN <<".">>
        ELSE IF Len(d) > 1 /\ d[Len(d)] = "/" THEN SubSeq(d, 1, Len(d) - 1)
        ELSE d

\* gin's joinPaths(absolutePath, relativePath), which RouterGroup.GET applies
\* to the group's base path and the handler's relative path.
joinPaths(absolutePath, relativePath) ==
    IF relativePath = <<>> THEN absolutePath
    ELSE LET finalPath == Clean(absolutePath \o <<"/">> \o relativePath)
         IN  IF HasSuffixSlash(relativePath) /\ ~HasSuffixSlash(finalPath)
             THEN finalPath \o <<"/">>
             ELSE finalPath

\* func(gctx *gin.Context) { gctx.Data(http.StatusOK, mime, data) }: the
\* closure captures the content type and the bytes.
StaticHandler(mime, data) == [mime |-> mime, data |-> data]

\* r.GET(relativePath, handler) on the group r = [basePath, routes].
GET(r, relativePath, handler) ==
    [r EXCEPT !.routes = Append(@, [method |-> "GET",
                                    path |-> joinPaths(r.basePath, relativePath),
                                    handler |-> handler])]

(***************************************************************************)
(* addIcon and the catalog.                                                *)
(***************************************************************************)
\* Seeded fault: the height is left to Resize, which then keeps the source's
\* aspect ratio.
addIconKeepingAspect(r, o) ==
    LET ico == Resize(o.img, o.size, 0)
        enc == Encode(ico, o.format)
    IN  IF enc.err # NoErr
        THEN [r |-> r, err |-> enc.err]
        ELSE [r |-> GET(r, <<"/", o.name>>, StaticHandler(o.mime, enc.data)),
              err |-> NoErr]

addIcon(r, o) ==
    LET ico == Resize(o.img, o.size, o.size)
        enc == Encode(ico, o.format)
    IN  IF enc.err # NoErr
        THEN [r |-> r, err |-> enc.err]
        ELSE [r |-> GET(r, <<"/", o.name>>, StaticHandler(o.mime, enc.data)),
              err |-> NoErr]

addAppleTouchIcon(r, img) ==
    addIcon(r, [name |-> "apple-touch-icon.png", img |-> img, size |-> 180,
                format |-> "png", mime |-> "image/png"])

\* Seeded fault: the third icon is registered under the second one's name.
addFaviconRepeatedName(r, img) ==
    LET a == addIcon(r, [name |-> "favicon.png", img |-> img, size |-> 48,
                         format |-> "png", mime |-> "image/png"])
    IN  IF a.err # NoErr THEN a
        ELSE
    LET b == addIcon(a.r, [name |-> "favicon-32x32.png", img |-> img, size |-> 32,
                           format |-> "png", mime |-> "image/png"])
    IN  IF b.err # NoErr THEN b
        ELSE addIcon(b.r, [name |-> "favicon-32x32.png", img |-> img, size |-> 16,
                           format |-> "png", mime |-> "image/png"])

addFavicon(r, img) ==
    LET a == addIcon(r, [name |-> "favicon.png", img |-> img, size |-> 48,
                         format |-> "png", mime |-> "image/png"])
    IN  IF a.err # NoErr THEN a
        ELSE
    LET b == addIcon(a.r, [name |-> "favicon-32x32.png", img |-> img, size |-> 32,
                           format |-> "png", mime |-> "image/png"])
    IN  IF b.err # NoErr THEN b
        ELSE addIcon(b.r, [name |-> "favicon-16x16.png", img |-> img, size |-> 16,
                           format |-> "png", mime |-> "image/png"])

(***************************************************************************)
(* The web manifest.                                                       *)
(***************************************************************************)
\* json.Marshal(manifest) for the webmanifest struct: one member per field
\* under its json tag, start_url left out when empty (omitempty).  Strings
\* and slices of strings always serialize, so the error is nil.
Marshal(m) ==
    LET always == [name |-> m.Name, short_name |-> m.ShortName,
                   display |-> m.Display,
                   background_color |-> m.BackgroundColor,
                   theme_color |-> m.ThemeColor,
                   icons |-> [i \in DOMAIN m.Icons |->
                                 [src |-> m.Icons[i].Src,
                                  sizes |-> m.Icons[i].Sizes,
                                  type |-> m.Icons[i].Type]]]
    IN  [data |-> IF m.StartURL = ""
                  THEN always
                  ELSE [k \in DOMAIN always \cup {"start_url"} |->
                           IF k = "start_url" THEN m.StartURL ELSE always[k]],
         err |-> NoErr]

addWebmanifest(r, img, o) ==
    LET path == IF ~HasSuffixSlash(r.basePath) THEN r.basePath \o <<"/">>
                ELSE r.basePath
        manifest0 == [Name |-> o.Name, ShortName |-> o.ShortName,
                      Display |-> o.Display, StartURL |-> o.StartURL,
                      BackgroundColor |-> "", ThemeColor |-> "",
                      Icons |-> <<[Src |-> path \o <<"android-chrome-192x192.png">>,
                                   Sizes |-> "192x192", Type |-> "image/png"],
                                  [Src |-> path \o <<"/", "android-chrome-512x512.png">>,
                                   Sizes |-> "512x512", Type |-> "image/png"]>>]
        manifest1 == IF manifest0.Display = ""
                     THEN [manifest0 EXCEPT !.Display = "standalone"] ELSE manifest0
        manifest2 == IF manifest1.ThemeColor = ""
                     THEN [manifest1 EXCEPT !.ThemeColor = "#ffffff"] ELSE manifest1
        manifest3 == IF manifest2.BackgroundColor = ""
                     THEN [manifest2 EXCEPT !.BackgroundColor = "#ffffff"] ELSE manifest2
        js == Marshal(manifest3)
    IN  IF js.err # NoErr THEN [r |-> r, err |-> js.err]
        ELSE
    LET r1 == GET(r, <<"/", "site.webmanifest">>,
                  StaticHandler("application/manifest+json", js.data))
        a == addIcon(r1, [name |-> "android-chrome-192x192.png", img |-> img,
                          size |-> 192, format |-> "png", mime |-> "image/png"])
    IN  IF a.err # NoErr THEN a
        ELSE addIcon(a.r, [name |-> "android-chrome-512x512.png", img |-> img,
                           size |-> 512, format |-> "png", mime |-> "image/png"])

(***************************************************************************)
(* The browserconfig document.                                             *)
(***************************************************************************)
\* The XML literal with tileColor spliced in: its two variable-free parts
\* are the logo reference and the TileColor element.
\* Seeded fault: an empty tile color is not replaced by the default.
addBrowserConfigNoDefault(r, img, tileColor) ==
    LET browserConfig == [square150x150logo |-> <<"/", "mstile-150x150.png">>,
                          TileColor |-> tileColor]
        r1 == GET(r, <<"/", "browserconfig.xml">>,
                  StaticHandler("application/xml", browserConfig))
    IN  addIcon(r1, [name |-> "mstile-150x150.png", img |-> img, size |-> 150,
                     format |-> "png", mime |-> "image/png"])

addBrowserConfig(r, img, tileColor) ==
    LET tc == IF tileColor = "" THEN "#da532c" ELSE tileColor
        browserConfig == [square150x150logo |-> <<"/", "mstile-150x150.png">>,
                          TileColor |-> tc]
        r1 == GET(r, <<"/", "browserconfig.xml">>,
                  StaticHandler("application/xml", browserConfig))
    IN  addIcon(r1, [name |-> "mstile-150x150.png", img |-> img, size |-> 150,
                     format |-> "png", mime |-> "image/png"])

(***************************************************************************)
(* Add.                                                                    *)
(***************************************************************************)
\* Seeded fault: the error of decoding the favicon is dropped.
AddIgnoringDecodeError(r, o) ==
    LET faviconImg == Decode(o.Favicon).img
        adec == IF o.AppleTouchIcon # NilBytes
                THEN Decode(o.AppleTouchIcon)
                ELSE [img |-> faviconImg, err |-> NoErr]
    IN  IF adec.err # NoErr THEN [r |-> r, err |-> adec.err]
        ELSE
    LET s1 == addAppleTouchIcon(r, adec.img)
    IN  IF s1.err # NoErr THEN s1
        ELSE
    LET s2 == addFavicon(s1.r, faviconImg)
    IN  IF s2.err # NoErr THEN s2
        ELSE
    LET s3 == addWebmanifest(s2.r, faviconImg, o)
    IN  IF s3.err # NoErr THEN s3
        ELSE addBrowserConfig(s3.r, faviconImg, o.TileColor)

\* Seeded fault: the touch icon is decoded even when it is nil.
AddAlwaysDecodingTouchIcon(r, o) ==
    LET dec == Decode(o.Favicon)
    IN  IF dec.err # NoErr THEN [r |-> r, err |-> dec.err]
        ELSE
    LET faviconImg == dec.img
        adec == Decode(o.AppleTouchIcon)
    IN  IF adec.err # NoErr THEN [r |-> r, err |-> adec.err]
        ELSE
    LET s1 == addAppleTouchIcon(r, adec.img)
    IN  IF s1.err # NoErr THEN s1
        ELSE
    LET s2 == addFavicon(s1.r, faviconImg)
    IN  IF s2.err # NoErr THEN s2
        ELSE
    LET s3 == addWebmanifest(s2.r, faviconImg, o)
    IN  IF s3.err # NoErr THEN s3
        ELSE addBrowserConfig(s3.r, faviconImg, o.TileColor)

Add(r, o) ==
    LET dec == Decode(o.Favicon)
    IN  IF dec.err # NoErr THEN [r |-> r, err |-> dec.err]
        ELSE
    LET faviconImg == dec.img
        adec == IF o.AppleTouchIcon # NilBytes
                THEN Decode(o.AppleTouchIcon)
                ELSE [img |-> faviconImg, err |-> NoErr]
    IN  IF adec.err # NoErr THEN [r |-> r, err |-> adec.err]
        ELSE
    LET s1 == addAppleTouchIcon(r, adec.img)
    IN  IF s1.err # NoErr THEN s1
        ELSE
    LET s2 == addFavicon(s1.r, faviconImg)
    IN  IF s2.err # NoErr THEN s2
        ELSE
    LET s3 == addWebmanifest(s2.r, faviconImg, o)
    IN  IF s3.err # NoErr THEN s3
        ELSE addBrowserConfig(s3.r, faviconImg, o.TileColor)

(***************************************************************************)
(* Serving.                                                                *)
(***************************************************************************)
\* Running a registered closure: gctx.Data(http.StatusOK, mime, data).
Invoke(handler) ==
    [status |-> StatusOK, mime |-> handler.mime, data |-> handler.data]

\* gin's reply to a request that matches no route.
NotFound ==
    [status |-> 404, mime |-> "text/plain",
     data |-> [text |-> "404 page not found"]]

\* The engine's dispatch of GET path over the registered routes.
ServeHTTP(rts, path) ==
    LET hits == {i \in DOMAIN rts : rts[i].method = "GET" /\ rts[i].path = path}
    IN  IF hits = {} THEN NotFound
        ELSE Invoke(rts[CHOOSE i \in hits : \A j \in hits : i <= j].handler)

(***************************************************************************)
(* The state machine: one router group, one call of Add, and clients.      *)
(***************************************************************************)
\* Base paths of a router group: the engine's root, Group("/icons") and
\* Group("/icons/").
BasePaths == {<<"/">>, <<"/", "icons">>, <<"/", "icons", "/">>}

\* The zero value Options{}.
ZeroOptions ==
    [Name |-> "", ShortName |-> "", Display |-> "", StartURL |-> "",
     ThemeColor |-> "", BackgroundColor |-> "", TileColor |-> "",
     Favicon |-> NilBytes, AppleTouchIcon |-> NilBytes]

OptionsSet ==
    [Name : {"App"}, ShortName : {"", "A"}, Display : {"", "browser"},
     StartURL : {"", "/"}, ThemeColor : {"", "#000000"},
     BackgroundColor : {"", "#0000ff"}, TileColor : {"", "#00aba9"},
     Favicon : SourceBytes, AppleTouchIcon : SourceBytes]

\* The options of the serving specification: branding left at its defaults.
ServeOptions ==
    {o \in OptionsSet :
        /\ o.ShortName = "" /\ o.Display = "" /\ o.StartURL = ""
        /\ o.ThemeColor = "" /\ o.BackgroundColor = "" /\ o.TileColor = ""
        /\ o.Favicon \in {JunkBytes, PngFile(1)}
        /\ o.AppleTouchIcon \in {NilBytes, PngFile(NumImages)}}

Clients == 1..NumClients

NoResponse == [status |-> 0, mime |-> "", data |-> [text |-> ""]]
Idle == [st |-> "idle", path |-> <<>>, resp |-> NoResponse]

\* What a client may ask for: every registered path and one that is not.
RequestPaths == {routes[i].path : i \in DOMAIN routes} \cup {<<"/", "missing.png">>}

Init ==
    /\ basePath \in BasePaths
    /\ routes = <<>>
    /\ pc = "init"
    /\ opts = ZeroOptions
    /\ err = NoErr
    /\ clients = [c \in Clients |-> Idle]

\* err := favicon.Add(r, o), with o any of Opts.
Call(Opts) ==
    /\ pc = "init"
    /\ \E o \in Opts :
          LET res == Add([basePath |-> basePath, routes |-> routes], o)
          IN  /\ opts' = o
              /\ routes' = res.r.routes
              /\ err' = res.err
    /\ pc' = "returned"
    /\ UNCHANGED <<basePath, clients>>

Setup == Call(OptionsSet)

SetupServe == Call(ServeOptions)

\* A client sends GET path.
Request(c) ==
    /\ pc = "returned"
    /\ clients[c].st = "idle"
    /\ \E p \in RequestPaths :
          clients' = [clients EXCEPT ![c] = [st |-> "pending", path |-> p,
                                             resp |-> NoResponse]]
    /\ UNCHANGED <<basePath, routes, pc, opts, err>>

\* Seeded fault: the handler serves from a buffer that the reply drains, so
\* the stored bytes are gone after the first request.
HandleDraining(c) ==
    /\ clients[c].st = "pending"
    /\ clients' = [clients EXCEPT ![c] = [st |-> "done", path |-> @.path,
                                          resp |-> ServeHTTP(routes, @.path)]]
    /\ routes' = [i \in DOMAIN routes |->
                     IF routes[i].path = clients[c].path
                     THEN [routes[i] EXCEPT !.handler.data = [text |-> ""]]
                     ELSE routes[i]]
    /\ UNCHANGED <<basePath, pc, opts, err>>

\* The engine runs the handler of a pending request and writes the reply.
Handle(c) ==
    /\ clients[c].st = "pending"
    /\ clients' = [clients EXCEPT ![c] = [st |-> "done", path |-> @.path,
                                          resp |-> ServeHTTP(routes, @.path)]]
    /\ UNCHANGED <<basePath, routes, pc, opts, err>>

\* The client takes the reply and is free to ask again.
Receive(c) ==
    /\ clients[c].st = "done"
    /\ clients' = [clients EXCEPT ![c] = Idle]
    /\ UNCHANGED <<basePath, routes, pc, opts, err>>

Next == Setup

Spec == Init /\ [][Next]_vars

NextServe ==
    \/ SetupServe
    \/ \E c \in Clients : Request(c)
    \/ \E c \in Clients : Handle(c)
    \/ \E c \in Clients : Receive(c)

SpecServe == Init /\ [][NextServe]_vars

(***************************************************************************)
(* Properties.                                                             *)
(***************************************************************************)
Returned == pc = "returned"
Succeeded == Returned /\ err = NoErr
Failed == Returned /\ err # NoErr

\* The URL of an asset: the group's base path, one separator, the file name.
AssetPath(name) ==
    (IF HasSuffixSlash(basePath) THEN basePath ELSE basePath \o <<"/">>) \o <<name>>

\* What a GET of the asset returns now.
Served(name) == ServeHTTP(routes, AssetPath(name))

\* The documents as served.
Manifest == Served("site.webmanifest").data
BrowserConfig == Served("browserconfig.xml").data

\* The rasters Add works from, by the options it was given.
PrimaryRaster == Decode(opts.Favicon).img
AlternateRaster ==
    IF opts.AppleTouchIcon = NilBytes THEN PrimaryRaster
    ELSE Decode(opts.AppleTouchIcon).img

\* The seven icons: name, side in pixels, and whether the alternate source
\* is the one it is drawn from.
IconCatalog ==
    {[name |-> "apple-touch-icon.png", size |-> 180, alternate |-> TRUE],
     [name |-> "favicon.png", size |-> 48, alternate |-> FALSE],
     [name |-> "favicon-32x32.png", size |-> 32, alternate |-> FALSE],
     [name |-> "favicon-16x16.png", size |-> 16, alternate |-> FALSE],
     [name |-> "android-chrome-192x192.png", size |-> 192, alternate |-> FALSE],
     [name |-> "android-chrome-512x512.png", size |-> 512, alternate |-> FALSE],
     [name |-> "mstile-150x150.png", size |-> 150, alternate |-> FALSE]}

DocumentNames == {"site.webmanifest", "browserconfig.xml"}

RegisteredPaths == {routes[i].path : i \in DOMAIN routes}

NoPathTwice ==
    \A i, j \in DOMAIN routes : routes[i].path = routes[j].path => i = j

\* C1: whenever Add returns an error, whichever step failed, no route of
\* that call is registered: the router is as it was before the call.
C1_NoPartialRegistration == Failed => routes = <<>>

\* C2: when the bytes of Options.Favicon cannot be decoded, Add returns the
\* decode error and registers no route, whatever the other options are.
C2_UndecodableFaviconRegistersNothing ==
    (Returned /\ opts.Favicon \in {NilBytes, JunkBytes})
        => /\ err = "image: unknown format"
           /\ routes = <<>>

\* Add has returned for a favicon that is no image, with a decodable touch
\* icon and branding set.
C2_Witness ==
    /\ Failed
    /\ opts.Favicon = JunkBytes
    /\ opts.AppleTouchIcon = PngFile(1)
    /\ opts.TileColor # ""
    /\ opts.ShortName # ""
    /\ routes = <<>>

\* C3: the manifest's short_name is Options.Name when Options.ShortName is
\* empty, and Options.ShortName otherwise.
C3_ShortNameFallsBackToName ==
    Succeeded =>
        Manifest.short_name =
            (IF opts.ShortName = "" THEN opts.Name ELSE opts.ShortName)

\* C4: the manifest's theme_color is Options.ThemeColor when set and
\* "#ffffff" only when unset, and likewise background_color for
\* Options.BackgroundColor.
C4_ColorsFollowOptions ==
    Succeeded =>
        /\ Manifest.theme_color =
              (IF opts.ThemeColor = "" THEN "#ffffff" ELSE opts.ThemeColor)
        /\ Manifest.background_color =
              (IF opts.BackgroundColor = "" THEN "#ffffff"
               ELSE opts.BackgroundColor)

\* C5: both icon references of the manifest are the base path, exactly one
\* separator and the file name, for every base path, and so each is the path
\* under which that icon is registered.
C5_ManifestIconPaths ==
    Succeeded =>
        /\ Manifest.icons[1].src = AssetPath("android-chrome-192x192.png")
        /\ Manifest.icons[2].src = AssetPath("android-chrome-512x512.png")
        /\ \A i \in 1..2 : Manifest.icons[i].src \in RegisteredPaths

\* C6, as claimed: a successful Add registers one GET handler per asset, no
\* path twice, 11 distinct paths in all.
C6_ElevenDistinctPaths ==
    Succeeded =>
        /\ NoPathTwice
        /\ \A i \in DOMAIN routes : routes[i].method = "GET"
        /\ Len(routes) = 11
        /\ Cardinality(RegisteredPaths) = 11

\* C6, amended: a successful Add registers one GET handler per asset, no
\* path twice: the 7 catalog icons and the 2 documents, 9 distinct paths.
C6_NineDistinctPaths ==
    Succeeded =>
        /\ NoPathTwice
        /\ \A i \in DOMAIN routes : routes[i].method = "GET"
        /\ Len(routes) = 9
        /\ RegisteredPaths =
              {AssetPath(d.name) : d \in IconCatalog}
                 \cup {AssetPath(n) : n \in DocumentNames}
        /\ Cardinality(RegisteredPaths) = 9

\* Add has succeeded on a group whose base path ends with a separator.
C6_Witness ==
    /\ Succeeded
    /\ HasSuffixSlash(basePath) /\ Len(basePath) > 1
    /\ Len(routes) = 9

\* C7: after a successful Add every catalog path serves image/png and an
\* image of exactly the declared size x size, drawn from the alternate raster
\* for apple-touch-icon.png and from the primary raster otherwise.
C7_IconsHaveDeclaredSize ==
    Succeeded =>
        \A d \in IconCatalog :
            LET resp == Served(d.name)
                from == IF d.alternate THEN AlternateRaster ELSE PrimaryRaster
            IN  /\ resp.status = 200
                /\ resp.mime = "image/png"
                /\ Decode(resp.data) =
                      [img |-> [id |-> from.id, w |-> d.size, h |-> d.size],
                       err |-> NoErr]

\* Add has succeeded with two different sources, neither of them square or
\* of a catalog size, and the touch icon shows the alternate one.
C7_Witness ==
    /\ Succeeded
    /\ opts.Favicon = PngFile(1)
    /\ opts.AppleTouchIcon = PngFile(2)
    /\ Decode(Served("apple-touch-icon.png").data).img.id = 2
    /\ Decode(Served("favicon-16x16.png").data).img.id = 1

\* C8: with Options.AppleTouchIcon unset, the touch icon served, and every
\* other asset registered, are those of the same call with
\* Options.AppleTouchIcon set to the bytes of Options.Favicon.
C8_UnsetTouchIconIsFavicon ==
    (Returned /\ opts.AppleTouchIcon = NilBytes) =>
        LET explicit == Add([basePath |-> basePath, routes |-> <<>>],
                            [opts EXCEPT !.AppleTouchIcon = opts.Favicon])
        IN  /\ ServeHTTP(explicit.r.routes, AssetPath("apple-touch-icon.png"))
                  = Served("apple-touch-icon.png")
            /\ explicit.r.routes = routes
            /\ explicit.err = err

\* Add has succeeded without a touch icon and serves one.
C8_Witness ==
    /\ Succeeded
    /\ opts.AppleTouchIcon = NilBytes
    /\ opts.Favicon = PngFile(1)
    /\ Served("apple-touch-icon.png").status = 200

\* C9: after a successful Add, under any interleaving of requests, every
\* reply for a registered path is 200 with the content type and bytes stored
\* at setup, and the stored assets stay those that setup produced.
C9_RepliesAreTheStoredAssets ==
    Succeeded =>
        /\ routes = Add([basePath |-> basePath, routes |-> <<>>], opts).r.routes
        /\ \A c \in Clients : \A i \in DOMAIN routes :
              (clients[c].st = "done" /\ clients[c].path = routes[i].path) =>
                  clients[c].resp = [status |-> 200,
                                     mime |-> routes[i].handler.mime,
                                     data |-> routes[i].handler.data]

\* One client holds the reply for the touch icon while another's request
\* for the same path is in flight.
C9_Witness ==
    /\ Succeeded
    /\ clients[1].st = "done"
    /\ clients[1].path = AssetPath("apple-touch-icon.png")
    /\ clients[1].resp.status = 200
    /\ clients[1].resp.data = [fmt |-> "png", id |-> NumImages, w |-> 180, h |-> 180]
    /\ clients[2].st = "pending"
    /\ clients[2].path = clients[1].path

\* C10: the browserconfig document carries Options.TileColor, or "#da532c"
\* when it is unset, and its tile icon reference is /mstile-150x150.png
\* without the base path, for every base path.
C10_BrowserConfig ==
    Succeeded =>
        /\ Served("browserconfig.xml").status = 200
        /\ Served("browserconfig.xml").mime = "application/xml"
        /\ BrowserConfig.TileColor =
              (IF opts.TileColor = "" THEN "#da532c" ELSE opts.TileColor)
        /\ BrowserConfig.square150x150logo = <<"/", "mstile-150x150.png">>

\* Add has succeeded under /icons with the tile color unset: the document's
\* reference is not the path the tile icon is registered under.
C10_Witness ==
    /\ Succeeded
    /\ basePath = <<"/", "icons">>
    /\ opts.TileColor = ""
    /\ BrowserConfig.TileColor = "#da532c"
    /\ BrowserConfig.square150x150logo # AssetPath("mstile-150x150.png")
    /\ AssetPath("mstile-150x150.png") \in RegisteredPaths

====
